---------------------------- MODULE Spec2Model ----------------------------
(***************************************************************************)
(* The Submarine Adventure runner game, in its two latest versions:        *)
(*   "DinoGame"  src/src/components/DinoGame.tsx                           *)
(*   "part_000"  src/unnamed/part_000 (levels, power-ups, space start)     *)
(*                                                                         *)
(* Units.  Lengths and velocities are in tenths of a pixel, so that the    *)
(* source's 0.6, 0.5 and 0.3 are the integers 6, 5 and 3; the arithmetic   *)
(* is the exact decimal arithmetic (the rounding error of the IEEE doubles *)
(* of the build, below 1e-12 px, is not modelled).  Times are in ms and    *)
(* are measured from the creation of the current effect closure: the code  *)
(* uses Date.now() only through differences with lastObstacleTime and      *)
(* lastPowerUpTime, both set at that moment.                               *)
(*                                                                         *)
(* Drawing (draw*, the popup span, the powerUps state that only mirrors    *)
(* localPowerUps, imageIndex, the rock images) changes no state the game   *)
(* reads and is left out, but for drawDino's drawImage, which throws for a *)
(* player image whose request has failed (SpecAssets).                     *)
(***************************************************************************)
EXTENDS Integers, Sequences, FiniteSets, TLC

VARIABLES
    version,          \* which source file is running
    showCover,        \* React state
    isRunning,        \* React state
    gameOver,         \* React state
    score,            \* React state
    stale,            \* a state update made by a frame callback is not yet committed
    listening,        \* the closure's handleJump is registered on window
    frame,            \* the closure's loop has a requestAnimationFrame pending
    capturedRunning,  \* isRunning as captured by the closure of the game effect
    dino,             \* closure: let dino
    obstacles,        \* closure: let obstacles
    lastObstacleTime, \* closure
    lastPowerUpTime,  \* closure (part_000)
    localScore,       \* closure
    localPowerUps,    \* closure (part_000)
    now,              \* the closure's last reading of Date.now()
    showLeaderboard,  \* React state (part_000)
    playerName,       \* React state (part_000), a sequence of characters
    leaderboard,      \* React state (part_000)
    storage,          \* localStorage's item 'submarineLeaderboard'
    listeners,        \* the closures whose handleJump is registered on window
    pending,          \* the closures whose loop has a frame callback pending
    animationRef,     \* the closure whose request id animationRef.current holds
    dinoImg,          \* closure: the state of dinoImg's request
    probe             \* arguments and results of a function applied on its own

vars == <<version, showCover, isRunning, gameOver, score, stale, listening,
          frame, capturedRunning, dino, obstacles, lastObstacleTime,
          lastPowerUpTime, localScore, localPowerUps, now,
          showLeaderboard, playerName, leaderboard, storage,
          listeners, pending, animationRef, dinoImg, probe>>

gameVars == <<version, showCover, isRunning, gameOver, score, stale, listening,
              frame, capturedRunning, dino, obstacles, lastObstacleTime,
              lastPowerUpTime, localScore, localPowerUps, now,
              showLeaderboard, playerName, leaderboard, storage,
              listeners, pending, animationRef, dinoImg>>

boardVars == <<showLeaderboard, playerName, leaderboard, storage>>

windowVars == <<listeners, pending, animationRef>>

closureVars == <<listening, frame, capturedRunning, dino, obstacles,
                 lastObstacleTime, lastPowerUpTime, localScore,
                 localPowerUps, now, windowVars, dinoImg>>

-----------------------------------------------------------------------------
(* Bounds of the model *)

\* ms between two frame callbacks of a running session (50 Hz display)
FrameMs == 20
\* running ticks stop once the session's counter has reached this value
MaxScore == 1010
\* rectangles given to the overlap test have their edges in 0..MaxCoord
MaxCoord == 3
\* scores given to the difficulty curve reach level MaxProbeLevel
MaxProbeLevel == 12
\* with the wall clock held, running ticks stop at this value of the counter
MaxHeldScore == 48010
\* with the leaderboard's actions, submits stop at this length of the list
MaxBoardLen == 3
\* lists given to the submit computation that are not sorted have this length
\* at most
MaxUnsortedLen == 3

-----------------------------------------------------------------------------
(* Program constants (tenths of a pixel, ms) *)

GRAVITY == 6
JUMP_FORCE == -120
OBSTACLE_SPEED == 60
OBSTACLE_INTERVAL == 1500
GROUND_HEIGHT == 200
INITIAL_JUMP_FORCE == -150
INITIAL_OBSTACLE_SPEED == 40
INITIAL_OBSTACLE_INTERVAL == 2000
POWERUP_INTERVAL == 10000
SPEED_INCREASE_THRESHOLD == 1000
SPEED_INCREASE_AMOUNT == 5
INTERVAL_DECREASE_AMOUNT == 100
JUMP_FORCE_DECREASE == 3
MinInterval == 1000
PowerUpBonus == 100
CanvasWidth == 8000
CanvasHeight == 4000

Versions == {"DinoGame", "part_000"}
Keys == {"Space", "ArrowUp", "KeyA"}

\* Math.random() * (maxHeight - minHeight) + minHeight with maxHeight 230 and
\* minHeight 280 lies in (230, 280]; two samples: one a grounded player
\* misses, one (Math.random() = 0) a grounded player touches.
PowerUpHeights == {2350, 2800}

Max(a, b) == IF a >= b THEN a ELSE b

\* the value of probe while the game itself runs
NoProbe == [kind |-> "none"]

\* localStorage.getItem's null: nothing is stored under the key
NoItem == [kind |-> "null"]

-----------------------------------------------------------------------------
(* The closure's initial values *)

FreshDino ==
    [x |-> 500,
     y |-> CanvasHeight - GROUND_HEIGHT - 1200,
     width |-> 1000,
     height |-> 1000,
     dy |-> 0,
     isJumping |-> FALSE,
     collisionBox |-> [x |-> 200, y |-> 150, width |-> 600, height |-> 700]]

NewObstacle ==
    [x |-> CanvasWidth,
     y |-> CanvasHeight - GROUND_HEIGHT - 600,
     width |-> 600,
     height |-> 600,
     collisionBox |-> [x |-> 50, y |-> 50, width |-> 500, height |-> 500]]

NewPowerUp(h) ==
    [x |-> CanvasWidth, y |-> h, width |-> 300, height |-> 300,
     collected |-> FALSE]

FreshClosureKeepsObstacles(run) ==
    [isRunning |-> run,
     dino |-> FreshDino,
     obstacles |-> obstacles,
     lastObstacleTime |-> 0,
     lastPowerUpTime |-> 0,
     localScore |-> 0,
     localPowerUps |-> << >>,
     now |-> 0]

\* the closure as a record, so that loop can be written as a function of it
FreshClosure(run) ==
    [isRunning |-> run,
     dino |-> FreshDino,
     obstacles |-> << >>,
     lastObstacleTime |-> 0,
     lastPowerUpTime |-> 0,
     localScore |-> 0,
     localPowerUps |-> << >>,
     now |-> 0]

Closure ==
    [isRunning |-> capturedRunning,
     dino |-> dino,
     obstacles |-> obstacles,
     lastObstacleTime |-> lastObstacleTime,
     lastPowerUpTime |-> lastPowerUpTime,
     localScore |-> localScore,
     localPowerUps |-> localPowerUps,
     now |-> now]

-----------------------------------------------------------------------------
(* Difficulty curve (part_000); DinoGame.tsx has the constants *)

speedLevel(s) == s \div SPEED_INCREASE_THRESHOLD

currentSpeed(v, s) ==
    IF v = "DinoGame" THEN OBSTACLE_SPEED
    ELSE INITIAL_OBSTACLE_SPEED + speedLevel(s) * SPEED_INCREASE_AMOUNT

currentIntervalNoFloor(v, s) ==
    IF v = "DinoGame" THEN OBSTACLE_INTERVAL
    ELSE INITIAL_OBSTACLE_INTERVAL - speedLevel(s) * INTERVAL_DECREASE_AMOUNT

currentInterval(v, s) ==
    IF v = "DinoGame" THEN OBSTACLE_INTERVAL
    ELSE Max(INITIAL_OBSTACLE_INTERVAL - speedLevel(s) * INTERVAL_DECREASE_AMOUNT,
             MinInterval)

currentJumpForceStronger(v, s) ==
    IF v = "DinoGame" THEN JUMP_FORCE
    ELSE INITIAL_JUMP_FORCE - speedLevel(s) * JUMP_FORCE_DECREASE

currentJumpForce(v, s) ==
    IF v = "DinoGame" THEN JUMP_FORCE
    ELSE INITIAL_JUMP_FORCE + speedLevel(s) * JUMP_FORCE_DECREASE

-----------------------------------------------------------------------------
(* The steps of one tick *)

GroundY(d) == CanvasHeight - GROUND_HEIGHT - d.height

updateDinoPositionFirst(d) ==
    IF d.isJumping
    THEN LET y  == d.y + d.dy
             dy == d.dy + GRAVITY
         IN  IF y >= GroundY(d)
             THEN [d EXCEPT !.y = GroundY(d), !.isJumping = FALSE, !.dy = 0]
             ELSE [d EXCEPT !.y = y, !.dy = dy]
    ELSE d

updateDinoDrift(d) ==
    IF d.isJumping
    THEN LET dy == d.dy + GRAVITY
             y  == d.y + dy
         IN  IF y >= GroundY(d)
             THEN [d EXCEPT !.y = GroundY(d), !.isJumping = FALSE, !.dy = 0]
             ELSE [d EXCEPT !.y = y, !.dy = dy, !.x = d.x + 10]
    ELSE d

updateDinoNoGravity(d) ==
    IF d.isJumping
    THEN LET dy == d.dy
             y  == d.y + dy
         IN  IF y >= GroundY(d)
             THEN [d EXCEPT !.y = GroundY(d), !.isJumping = FALSE, !.dy = 0]
             ELSE [d EXCEPT !.y = y, !.dy = dy]
    ELSE d

updateDino(d) ==
    IF d.isJumping
    THEN LET dy == d.dy + GRAVITY
             y  == d.y + dy
         IN  IF y >= GroundY(d)
             THEN [d EXCEPT !.y = GroundY(d), !.isJumping = FALSE, !.dy = 0]
             ELSE [d EXCEPT !.y = y, !.dy = dy]
    ELSE d

MoveLeft(o, speed) == [o EXCEPT !.x = o.x - speed]

OnTrackInclusive(o) == o.x + o.width >= 0

OnTrackRightHalf(o) == o.x + o.width > CanvasWidth \div 2

OnTrack(o) == o.x + o.width > 0

updateObstaclesFilterFirst(v, c, t) ==
    LET speed    == currentSpeed(v, c.localScore)
        interval == currentInterval(v, c.localScore)
        spawn    == t - c.lastObstacleTime > interval
        kept     == SelectSeq(c.obstacles, OnTrack)
        pushed   == IF spawn THEN Append(kept, NewObstacle) ELSE kept
    IN  [c EXCEPT !.obstacles = [i \in 1..Len(pushed) |->
                                    MoveLeft(pushed[i], speed)],
                  !.lastObstacleTime = IF spawn THEN t ELSE c.lastObstacleTime,
                  !.now = t]

updateObstaclesSpawnAtInterval(v, c, t) ==
    LET speed    == currentSpeed(v, c.localScore)
        interval == currentInterval(v, c.localScore)
        spawn    == t - c.lastObstacleTime >= interval
        pushed   == IF spawn THEN Append(c.obstacles, NewObstacle)
                    ELSE c.obstacles
        moved    == [i \in 1..Len(pushed) |-> MoveLeft(pushed[i], speed)]
    IN  [c EXCEPT !.obstacles = SelectSeq(moved, OnTrack),
                  !.lastObstacleTime = IF spawn THEN t ELSE c.lastObstacleTime,
                  !.now = t]

\* c: the closure, t: this tick's Date.now()
updateObstacles(v, c, t) ==
    LET speed    == currentSpeed(v, c.localScore)
        interval == currentInterval(v, c.localScore)
        spawn    == t - c.lastObstacleTime > interval
        pushed   == IF spawn THEN Append(c.obstacles, NewObstacle)
                    ELSE c.obstacles
        moved    == [i \in 1..Len(pushed) |-> MoveLeft(pushed[i], speed)]
    IN  [c EXCEPT !.obstacles = SelectSeq(moved, OnTrack),
                  !.lastObstacleTime = IF spawn THEN t ELSE c.lastObstacleTime,
                  !.now = t]

updatePowerUpsBaseSpeed(c, t, h) ==
    LET spawn  == t - c.lastPowerUpTime > POWERUP_INTERVAL
        pushed == IF spawn THEN Append(c.localPowerUps, NewPowerUp(h))
                  ELSE c.localPowerUps
        moved  == [i \in 1..Len(pushed) |->
                      IF pushed[i].collected THEN pushed[i]
                      ELSE MoveLeft(pushed[i], INITIAL_OBSTACLE_SPEED)]
    IN  [c EXCEPT !.localPowerUps = SelectSeq(moved, OnTrack),
                  !.lastPowerUpTime = IF spawn THEN t ELSE c.lastPowerUpTime]

updatePowerUpsSharedTimer(c, t, h) ==
    LET speed  == currentSpeed("part_000", c.localScore)
        spawn  == t - c.lastPowerUpTime > POWERUP_INTERVAL
        pushed == IF spawn THEN Append(c.localPowerUps, NewPowerUp(h))
                  ELSE c.localPowerUps
        moved  == [i \in 1..Len(pushed) |->
                      IF pushed[i].collected THEN pushed[i]
                      ELSE MoveLeft(pushed[i], speed)]
    IN  [c EXCEPT !.localPowerUps = SelectSeq(moved, OnTrack),
                  !.lastPowerUpTime = IF spawn THEN t ELSE c.lastPowerUpTime,
                  !.lastObstacleTime = IF spawn THEN t ELSE c.lastObstacleTime]

\* h: this tick's random height, used only if a power-up is spawned
updatePowerUps(c, t, h) ==
    LET speed  == currentSpeed("part_000", c.localScore)
        spawn  == t - c.lastPowerUpTime > POWERUP_INTERVAL
        pushed == IF spawn THEN Append(c.localPowerUps, NewPowerUp(h))
                  ELSE c.localPowerUps
        moved  == [i \in 1..Len(pushed) |->
                      IF pushed[i].collected THEN pushed[i]
                      ELSE MoveLeft(pushed[i], speed)]
    IN  [c EXCEPT !.localPowerUps = SelectSeq(moved, OnTrack),
                  !.lastPowerUpTime = IF spawn THEN t ELSE c.lastPowerUpTime]

dinoBox(d) ==
    [left   |-> d.x + d.collisionBox.x,
     right  |-> d.x + d.collisionBox.x + d.collisionBox.width,
     top    |-> d.y + d.collisionBox.y,
     bottom |-> d.y + d.collisionBox.y + d.collisionBox.height]

obsBox(o) ==
    [left   |-> o.x + o.collisionBox.x,
     right  |-> o.x + o.collisionBox.x + o.collisionBox.width,
     top    |-> CanvasHeight - GROUND_HEIGHT - o.height + o.collisionBox.y,
     bottom |-> CanvasHeight - GROUND_HEIGHT - o.height + o.collisionBox.y
                + o.collisionBox.height]

powerUpBox(p) ==
    [left |-> p.x, right |-> p.x + p.width,
     top |-> p.y, bottom |-> p.y + p.height]

OverlapInclusive(a, b) ==
    /\ a.left <= b.right
    /\ a.right >= b.left
    /\ a.top <= b.bottom
    /\ a.bottom >= b.top

Overlap(a, b) ==
    /\ a.left < b.right
    /\ a.right > b.left
    /\ a.top < b.bottom
    /\ a.bottom > b.top

checkCollisionSprite(d, obs) ==
    \E i \in 1..Len(obs) :
        /\ d.x < obs[i].x + obs[i].width
        /\ d.x + d.width > obs[i].x
        /\ d.y < obs[i].y + obs[i].height
        /\ d.y + d.height > obs[i].y

checkCollision(d, obs) ==
    \E i \in 1..Len(obs) : Overlap(dinoBox(d), obsBox(obs[i]))

CollectableAgain(d, pus) ==
    {i \in 1..Len(pus) : Overlap(dinoBox(d), powerUpBox(pus[i]))}

\* the power-ups the for loop would stop at
Collectable(d, pus) ==
    {i \in 1..Len(pus) :
        ~pus[i].collected /\ Overlap(dinoBox(d), powerUpBox(pus[i]))}

First(S) == CHOOSE i \in S : \A j \in S : i <= j

checkPowerUpCollisionNoMark(c) ==
    LET hits == Collectable(c.dino, c.localPowerUps)
    IN  IF hits = {} THEN c
        ELSE [c EXCEPT !.localScore = c.localScore + PowerUpBonus]

\* marks the first uncollected power-up the player overlaps and adds the bonus
checkPowerUpCollisionPenalty(c) ==
    LET hits == Collectable(c.dino, c.localPowerUps)
    IN  IF hits = {} THEN c
        ELSE [c EXCEPT !.localPowerUps[First(hits)].collected = TRUE,
                       !.localScore = c.localScore - PowerUpBonus]

checkPowerUpCollision(c) ==
    LET hits == Collectable(c.dino, c.localPowerUps)
    IN  IF hits = {} THEN c
        ELSE [c EXCEPT !.localPowerUps[First(hits)].collected = TRUE,
                       !.localScore = c.localScore + PowerUpBonus]

\* the updates of a running tick, up to the collision test
Advance(v, c, t, h) ==
    LET c1 == [c EXCEPT !.dino = updateDino(c.dino)]
        c2 == updateObstacles(v, c1, t)
    IN  IF v = "DinoGame" THEN c2
        ELSE checkPowerUpCollision(updatePowerUps(c2, t, h))

\* part_000 wraps the updates in if (isRunning), the closure's isRunning
Paused(v, c) == v = "part_000" /\ ~c.isRunning

onCollisionReschedules(a) ==
    [closure |-> a, hit |-> TRUE, scheduled |-> TRUE,
     setScore |-> a.localScore]

onCollisionNoReturn(a) ==
    [closure |-> [a EXCEPT !.localScore = a.localScore + 1],
     hit |-> TRUE, scheduled |-> TRUE, setScore |-> a.localScore]

onCollisionCountsTick(a) ==
    [closure |-> a, hit |-> TRUE, scheduled |-> FALSE,
     setScore |-> a.localScore + 1]

\* The result of loop(): the closure after the callback, whether it hit an
\* obstacle, whether it called requestAnimationFrame, and what it passed to
\* setScore (-1: setScore was not called).
\* a: the closure after the updates. The collision branch returns early.
onCollision(a) ==
    [closure |-> a, hit |-> TRUE, scheduled |-> FALSE,
     setScore |-> a.localScore]

\* c: the closure before the updates (checkPowerUpCollision has called
\* setScore if it changed localScore)
onSurvive(c, a) ==
    [closure |-> [a EXCEPT !.localScore = a.localScore + 1],
     hit |-> FALSE, scheduled |-> TRUE,
     setScore |-> IF a.localScore # c.localScore THEN a.localScore ELSE -1]

loop(v, c, t, h) ==
    IF Paused(v, c)
    THEN [closure |-> c, hit |-> FALSE, scheduled |-> TRUE, setScore |-> -1]
    ELSE LET a == Advance(v, c, t, h)
         IN  IF checkCollision(a.dino, a.obstacles)
             THEN onCollision(a)
             ELSE onSurvive(c, a)

handleJumpWhileIdle(v, c, key) ==
    IF /\ key \in {"Space", "ArrowUp"}
       /\ ~c.dino.isJumping
    THEN [c EXCEPT !.dino.dy = currentJumpForce(v, c.localScore),
                   !.dino.isJumping = TRUE]
    ELSE c

handleJumpDouble(v, c, key) ==
    IF /\ key \in {"Space", "ArrowUp"}
       /\ (v = "part_000" => c.isRunning)
    THEN [c EXCEPT !.dino.dy = currentJumpForce(v, c.localScore),
                   !.dino.isJumping = TRUE]
    ELSE c

\* drawDino: if (dinoImg.complete) ctx.drawImage(dinoImg, ...).  complete is
\* true of an image whose request has failed, and drawImage throws an
\* InvalidStateError for such an image (HTML, "check the usability of the
\* image argument"); an image still being fetched is not complete and is
\* not drawn.
drawDinoThrows(img) == img = "broken"

\* loop() when drawDino throws: DinoGame.tsx has called updateDino before
\* it, part_000 nothing; the rest of the callback, requestAnimationFrame
\* included, is not run.
loopThrows(v, c) ==
    [closure |-> IF v = "DinoGame" THEN [c EXCEPT !.dino = updateDino(c.dino)]
                 ELSE c,
     hit |-> FALSE, scheduled |-> FALSE, setScore |-> -1]

\* handleJump on the closure
handleJump(v, c, key) ==
    IF /\ key \in {"Space", "ArrowUp"}
       /\ ~c.dino.isJumping
       /\ (v = "part_000" => c.isRunning)
    THEN [c EXCEPT !.dino.dy = currentJumpForce(v, c.localScore),
                   !.dino.isJumping = TRUE]
    ELSE c

-----------------------------------------------------------------------------
(* The leaderboard (part_000).  A string is a sequence of characters.      *)

\* .slice(0, 10)
Capacity == 10

Whitespace == {" "}

RECURSIVE trimStart(_)
trimStart(s) ==
    IF s # << >> /\ Head(s) \in Whitespace THEN trimStart(Tail(s)) ELSE s

RECURSIVE trimEnd(_)
trimEnd(s) ==
    IF s # << >> /\ s[Len(s)] \in Whitespace
    THEN trimEnd(SubSeq(s, 1, Len(s) - 1))
    ELSE s

trimNothing(s) == s

\* String.prototype.trim
trim(s) == trimEnd(trimStart(s))

newEntry(name, sc, date) == [name |-> name, score |-> sc, date |-> date]

InsertDescBeforeTies(sorted, e) ==
    LET k == Cardinality({i \in 1..Len(sorted) : sorted[i].score > e.score})
    IN  SubSeq(sorted, 1, k) \o <<e>> \o SubSeq(sorted, k + 1, Len(sorted))

\* e goes behind the entries of a sorted list that do not compare after it
InsertDesc(sorted, e) ==
    LET k == Cardinality({i \in 1..Len(sorted) : sorted[i].score >= e.score})
    IN  SubSeq(sorted, 1, k) \o <<e>> \o SubSeq(sorted, k + 1, Len(sorted))

\* Array.prototype.sort with (a, b) => b.score - a.score; the sort is stable
\* (ECMAScript 2019), so its result is that of inserting the elements in
\* their order
RECURSIVE sortDesc(_)
sortDesc(s) ==
    IF s = << >> THEN << >>
    ELSE InsertDesc(sortDesc(SubSeq(s, 1, Len(s) - 1)), s[Len(s)])

sliceLast(s) ==
    SubSeq(s, IF Len(s) < Capacity THEN 1 ELSE Len(s) - Capacity + 1, Len(s))

slice(s) == SubSeq(s, 1, IF Len(s) < Capacity THEN Len(s) ELSE Capacity)

updatedLeaderboardNoSlice(board, e) == sortDesc(Append(board, e))

updatedLeaderboard(board, e) == slice(sortDesc(Append(board, e)))

\* JSON's string escapes, of the characters of the model that have one
RECURSIVE Escape(_)
Escape(s) ==
    IF s = << >> THEN << >>
    ELSE (IF Head(s) \in {"\"", "\\"} THEN <<"\\", Head(s)>> ELSE <<Head(s)>>)
            \o Escape(Tail(s))

RECURSIVE Unescape(_)
Unescape(t) ==
    IF t = << >> THEN << >>
    ELSE IF Head(t) = "\\" /\ Len(t) >= 2
         THEN <<t[2]>> \o Unescape(SubSeq(t, 3, Len(t)))
         ELSE <<Head(t)>> \o Unescape(Tail(t))

\* the decimal digits of a natural number, and back
RECURSIVE Digits(_)
Digits(n) == IF n < 10 THEN <<n>> ELSE Append(Digits(n \div 10), n % 10)

RECURSIVE Number(_)
Number(ds) ==
    IF Len(ds) = 1 THEN ds[1]
    ELSE 10 * Number(SubSeq(ds, 1, Len(ds) - 1)) + ds[Len(ds)]

stringifyRaw(board) ==
    [kind |-> "text",
     entries |-> [i \in 1..Len(board) |->
                     [name  |-> board[i].name,
                      score |-> Digits(board[i].score),
                      date  |-> board[i].date]]]

\* JSON.stringify of the list: the text, as the list of its entries' string
\* and number literals
stringify(board) ==
    [kind |-> "text",
     entries |-> [i \in 1..Len(board) |->
                     [name  |-> Escape(board[i].name),
                      score |-> Digits(board[i].score),
                      date  |-> Escape(board[i].date)]]]

\* JSON.parse of a text that stringify wrote
parse(item) ==
    [i \in 1..Len(item.entries) |->
        [name  |-> Unescape(item.entries[i].name),
         score |-> Number(item.entries[i].score),
         date  |-> Unescape(item.entries[i].date)]]

\* the load effect: the stored list, or the initial state [] if there is none
load(item) == IF item.kind = "null" THEN << >> ELSE parse(item)

-----------------------------------------------------------------------------
(* What is registered with the window: keydown listeners and frame         *)
(* callbacks.  "this" is the closure of the game effect's last run, whose  *)
(* variables the model holds; "other" is a closure of an earlier run.      *)

Window ==
    [listeners |-> listeners, pending |-> pending,
     animationRef |-> animationRef]

NoWindow == [listeners |-> {}, pending |-> {}, animationRef |-> "none"]

SetWindow(w) ==
    /\ listeners' = w.listeners
    /\ pending' = w.pending
    /\ animationRef' = w.animationRef

cleanupKeepsFrame(w) == [w EXCEPT !.listeners = @ \ {"this"}]

\* The function the game effect returns: removeEventListener(handleJump) and
\* cancelAnimationFrame(animationRef.current), which cancels the request the
\* ref holds if it is still pending.
cleanup(w) ==
    [w EXCEPT !.listeners = @ \ {"this"},
              !.pending = @ \ {w.animationRef}]

\* the effect runs again: what is left of the last closure is an earlier
\* closure's from now on
Older(w) ==
    [listeners |-> IF w.listeners = {} THEN {} ELSE {"other"},
     pending |-> IF w.pending = {} THEN {} ELSE {"other"},
     animationRef |-> IF w.animationRef = "none" THEN "none" ELSE "other"]

\* window.addEventListener("keydown", handleJump)
addListener(w) == [w EXCEPT !.listeners = @ \cup {"this"}]

\* animationRef.current = requestAnimationFrame(loop)
requestFrame(w) ==
    [w EXCEPT !.pending = @ \cup {"this"}, !.animationRef = "this"]

\* the closure's pending callback is taken off the list and run
callbackRuns(w) == [w EXCEPT !.pending = @ \ {"this"}]

-----------------------------------------------------------------------------
(* State changes *)

SetClosure(c) ==
    /\ capturedRunning' = c.isRunning
    /\ dino' = c.dino
    /\ obstacles' = c.obstacles
    /\ lastObstacleTime' = c.lastObstacleTime
    /\ lastPowerUpTime' = c.lastPowerUpTime
    /\ localScore' = c.localScore
    /\ localPowerUps' = c.localPowerUps
    /\ now' = c.now

ApplyKeepsRunning(r) ==
    /\ SetClosure(r.closure)
    /\ frame' = r.scheduled
    /\ SetWindow(IF r.scheduled THEN requestFrame(callbackRuns(Window))
                 ELSE callbackRuns(Window))
    /\ isRunning' = isRunning
    /\ gameOver' = IF r.hit THEN TRUE ELSE gameOver
    /\ score' = IF r.setScore >= 0 THEN r.setScore ELSE score
    /\ stale' = (stale \/ r.hit)

\* what a frame callback's result does to the React state and to the loop
Apply(r) ==
    /\ SetClosure(r.closure)
    /\ frame' = r.scheduled
    /\ SetWindow(IF r.scheduled THEN requestFrame(callbackRuns(Window))
                 ELSE callbackRuns(Window))
    /\ isRunning' = IF r.hit THEN FALSE ELSE isRunning
    /\ gameOver' = IF r.hit THEN TRUE ELSE gameOver
    /\ score' = IF r.setScore >= 0 THEN r.setScore ELSE score
    /\ stale' = (stale \/ r.hit)

\* the game effect's canvas guard: the canvas is mounted (part_000 renders
\* it under !showCover && !showLeaderboard)
CanvasMounted(v, cover, board) == v = "DinoGame" \/ (~cover /\ ~board)

\* The game effect runs (after its cleanup, if a closure existed): it builds
\* a closure, registers handleJump and calls loop() once.
\* React first calls the function the last run returned, if it returned one.
\* dinoImg is a new Image whose src has just been set: its request is under
\* way during the first loop().
RunEffect(v, run, cover, board, sc, over) ==
    LET left == Older(IF listening THEN cleanup(Window) ELSE Window)
    IN  IF (v = "DinoGame" /\ ~run) \/ ~CanvasMounted(v, cover, board)
        THEN /\ SetClosure(FreshClosure(FALSE))
             /\ listening' = FALSE
             /\ frame' = FALSE
             /\ SetWindow(left)
             /\ dinoImg' = "none"
             /\ isRunning' = run
             /\ gameOver' = over
             /\ score' = sc
        ELSE LET r == loop(v, FreshClosure(run), 0, 0)
             IN  /\ SetClosure(r.closure)
                 /\ listening' = TRUE
                 /\ frame' = r.scheduled
                 /\ SetWindow(IF r.scheduled
                              THEN requestFrame(addListener(left))
                              ELSE addListener(left))
                 /\ dinoImg' = "loading"
                 /\ isRunning' = run
                 /\ gameOver' = over
                 /\ score' = sc

InitGame ==
    /\ version \in Versions
    /\ showCover = TRUE
    /\ isRunning = FALSE
    /\ gameOver = FALSE
    /\ score = 0
    /\ stale = FALSE
    /\ listening = FALSE
    /\ frame = FALSE
    /\ capturedRunning = FALSE
    /\ dino = FreshDino
    /\ obstacles = << >>
    /\ lastObstacleTime = 0
    /\ lastPowerUpTime = 0
    /\ localScore = 0
    /\ localPowerUps = << >>
    /\ now = 0
    /\ showLeaderboard = FALSE
    /\ playerName = << >>
    /\ leaderboard = << >>
    /\ storage = NoItem
    /\ listeners = {}
    /\ pending = {}
    /\ animationRef = "none"
    /\ dinoImg = "none"

Init == InitGame /\ probe = NoProbe

\* The cover's button: startGame. A click is a discrete event, React commits
\* and runs the effects before the next event.
ClickStart ==
    /\ showCover
    /\ showCover' = FALSE
    /\ stale' = FALSE
    /\ RunEffect(version, version = "DinoGame", FALSE, FALSE, 0, FALSE)
    /\ showLeaderboard' = FALSE
    /\ playerName' = << >>
    /\ UNCHANGED <<version, leaderboard, storage, probe>>

\* The game-over overlay's button: restartGame (DinoGame.tsx), startGame
\* (part_000, "Play Again"). The overlay is there once game over is rendered.
ClickPlayAgain ==
    /\ gameOver /\ ~stale
    /\ IF version = "DinoGame"
       THEN RunEffect(version, TRUE, showCover, FALSE, 0, FALSE)
       ELSE /\ isRunning' = FALSE
            /\ gameOver' = FALSE
            /\ score' = 0
            /\ UNCHANGED closureVars
    /\ showLeaderboard' = FALSE
    /\ playerName' = << >>
    /\ UNCHANGED <<version, showCover, stale, leaderboard, storage, probe>>

KeyDownStartsOverGameOver(key) ==
    LET jumped == IF listening THEN handleJump(version, Closure, key)
                  ELSE Closure
        start  == /\ version = "part_000"
                  /\ key = "Space"
                  /\ ~stale
                  /\ ~showCover /\ ~isRunning
    IN  /\ IF start
           THEN RunEffect(version, TRUE, showCover, showLeaderboard, score,
                          gameOver)
           ELSE /\ SetClosure(jumped)
                /\ UNCHANGED <<listening, frame, isRunning, gameOver, score,
                               windowVars, dinoImg>>
        /\ UNCHANGED <<version, showCover, stale, boardVars, probe>>

\* A key goes down: window's listeners are handleSpaceStart (part_000, as
\* rendered last) and the closure's handleJump.
KeyDown(key) ==
    LET jumped == IF listening THEN handleJump(version, Closure, key)
                  ELSE Closure
        start  == /\ version = "part_000"
                  /\ key = "Space"
                  /\ ~stale
                  /\ ~showCover /\ ~isRunning /\ ~gameOver
    IN  /\ IF start
           THEN RunEffect(version, TRUE, showCover, showLeaderboard, score,
                          gameOver)
           ELSE /\ SetClosure(jumped)
                /\ UNCHANGED <<listening, frame, isRunning, gameOver, score,
                               windowVars, dinoImg>>
        /\ UNCHANGED <<version, showCover, stale, boardVars, probe>>

\* The display refreshes: the pending callback runs loop().
Frame(h) ==
    /\ frame
    /\ ~drawDinoThrows(dinoImg)
    /\ capturedRunning => localScore < MaxScore
    /\ Apply(loop(version, Closure,
                  IF capturedRunning THEN now + FrameMs ELSE now, h))
    /\ UNCHANGED <<version, showCover, listening, dinoImg, boardVars, probe>>

\* React commits the state a frame callback set: the game effect's cleanup
\* runs (isRunning changed), then the effect.
FlushEffects ==
    /\ stale
    /\ stale' = FALSE
    /\ RunEffect(version, isRunning, showCover, showLeaderboard, score,
                 gameOver)
    /\ UNCHANGED <<version, showCover, boardVars, probe>>

\* the game-over overlay (name input, Submit Score, Play Again) is rendered
GameOverOverlay ==
    /\ version = "part_000"
    /\ gameOver /\ ~stale /\ ~showCover /\ ~showLeaderboard

\* the name input's onChange
TypeName(n) ==
    /\ GameOverOverlay
    /\ playerName' = n
    /\ UNCHANGED <<version, showCover, isRunning, gameOver, score, stale,
                   closureVars, showLeaderboard, leaderboard, storage, probe>>

ClickSubmitKeepsOverlay(date) ==
    /\ GameOverOverlay
    /\ trim(playerName) # << >>
    /\ Len(leaderboard) < MaxBoardLen
    /\ leaderboard' = updatedLeaderboard(leaderboard,
                                         newEntry(playerName, score, date))
    /\ storage' = stringify(leaderboard')
    /\ UNCHANGED <<version, showCover, isRunning, gameOver, score, stale,
                   closureVars, showLeaderboard, playerName, probe>>

\* Submit Score: handleSubmitScore; date is new Date().toLocaleDateString().
\* isRunning and showCover stay as they are, so the game effect does not run
\* again and its closure goes on.
ClickSubmit(date) ==
    /\ GameOverOverlay
    /\ IF trim(playerName) = << >>
       THEN UNCHANGED <<leaderboard, storage, showLeaderboard, gameOver>>
       ELSE /\ Len(leaderboard) < MaxBoardLen
            /\ leaderboard' =
                  updatedLeaderboard(leaderboard,
                                     newEntry(playerName, score, date))
            /\ storage' = stringify(leaderboard')
            /\ showLeaderboard' = TRUE
            /\ gameOver' = FALSE
    /\ UNCHANGED <<version, showCover, isRunning, score, stale, closureVars,
                   playerName, probe>>

\* The leaderboard's close button and its backdrop:
\* setShowLeaderboard(false); startGame().  The game effect runs again only
\* if isRunning or showCover changes.
CloseLeaderboard ==
    /\ version = "part_000"
    /\ showLeaderboard
    /\ showLeaderboard' = FALSE
    /\ playerName' = << >>
    /\ showCover' = FALSE
    /\ IF isRunning \/ showCover
       THEN RunEffect(version, FALSE, FALSE, FALSE, 0, FALSE)
       ELSE /\ isRunning' = FALSE
            /\ gameOver' = FALSE
            /\ score' = 0
            /\ UNCHANGED closureVars
    /\ UNCHANGED <<version, stale, leaderboard, storage, probe>>

\* The page is loaded again: the component mounts with its initial state and
\* the load effect reads the store.
Reload ==
    /\ version = "part_000"
    /\ showCover' = TRUE
    /\ isRunning' = FALSE
    /\ gameOver' = FALSE
    /\ score' = 0
    /\ stale' = FALSE
    /\ listening' = FALSE
    /\ frame' = FALSE
    /\ SetClosure(FreshClosure(FALSE))
    /\ SetWindow(NoWindow)
    /\ dinoImg' = "none"
    /\ showLeaderboard' = FALSE
    /\ playerName' = << >>
    /\ leaderboard' = load(storage)
    /\ UNCHANGED <<version, storage, probe>>

Next ==
    \/ ClickStart
    \/ ClickPlayAgain
    \/ \E key \in Keys : KeyDown(key)
    \/ \E h \in PowerUpHeights : Frame(h)
    \/ FlushEffects

Spec == Init /\ [][Next]_vars

-----------------------------------------------------------------------------
(* The overlap test on its own: the if of checkCollision and of              *)
(* checkPowerUpCollision, applied to two rectangles in both orders           *)

Coords == 0..MaxCoord

Rects ==
    {r \in [left : Coords, right : Coords, top : Coords, bottom : Coords] :
        r.left < r.right /\ r.top < r.bottom}

InitOverlap ==
    /\ InitGame
    /\ version = "part_000"
    /\ probe \in [kind : {"overlap"}, a : Rects, b : Rects, done : {FALSE},
                  ab : {FALSE}, ba : {FALSE}]

ApplyOverlap ==
    /\ probe.kind = "overlap" /\ ~probe.done
    /\ probe' = [probe EXCEPT !.done = TRUE,
                              !.ab = Overlap(probe.a, probe.b),
                              !.ba = Overlap(probe.b, probe.a)]
    /\ UNCHANGED gameVars

SpecOverlap == InitOverlap /\ [][ApplyOverlap]_vars

-----------------------------------------------------------------------------
(* The difficulty curve on its own: speedLevel and currentInterval of      *)
(* updateObstacles, applied to two scores                                    *)

\* around every quarter of a level, up to level MaxProbeLevel
ProbeScores ==
    {k * 250 + j : k \in 0..(4 * MaxProbeLevel), j \in {0, 1, 249}}

InitLevel ==
    /\ InitGame
    /\ version = "part_000"
    /\ probe \in [kind : {"level"}, s : ProbeScores, t : ProbeScores,
                  done : {FALSE}, levelS : {0}, levelT : {0},
                  intervalS : {0}, intervalT : {0}]

ApplyLevel ==
    /\ probe.kind = "level" /\ ~probe.done
    /\ probe' = [probe EXCEPT
                   !.done = TRUE,
                   !.levelS = speedLevel(probe.s),
                   !.levelT = speedLevel(probe.t),
                   !.intervalS = currentInterval(version, probe.s),
                   !.intervalT = currentInterval(version, probe.t)]
    /\ UNCHANGED gameVars

SpecLevel == InitLevel /\ [][ApplyLevel]_vars

-----------------------------------------------------------------------------
(* part_000 while the wall clock does not advance.  Date.now() is the      *)
(* system's wall clock: it stands still or reads earlier than before when  *)
(* the system time is set back (by the user or by a time synchronisation), *)
(* and then now - lastObstacleTime stays at or below 0 for as long as the  *)
(* clock was set back: nothing is spawned, the loop goes on counting.      *)

InitHeld == InitGame /\ version = "part_000" /\ probe = NoProbe

FrameHeld ==
    /\ frame
    /\ ~drawDinoThrows(dinoImg)
    /\ capturedRunning => localScore < MaxHeldScore
    /\ Apply(loop(version, Closure, now, 0))
    /\ UNCHANGED <<version, showCover, listening, dinoImg, boardVars, probe>>

NextHeld ==
    \/ ClickStart
    \/ KeyDown("Space")
    \/ FrameHeld

SpecHeld == InitHeld /\ [][NextHeld]_vars

-----------------------------------------------------------------------------
(* Both versions with the outcomes of the player image's request.  Spec    *)
(* is the game while the request is under way; here it also ends, with the *)
(* image or with an error.                                                   *)

\* dinoImg.onload: handleImageLoad counts the image; imagesLoaded is read
\* nowhere
ImageLoad ==
    /\ dinoImg = "loading"
    /\ dinoImg' = "loaded"
    /\ UNCHANGED <<version, showCover, isRunning, gameOver, score, stale,
                   listening, frame, capturedRunning, dino, obstacles,
                   lastObstacleTime, lastPowerUpTime, localScore,
                   localPowerUps, now, windowVars, boardVars, probe>>

\* dinoImg.onerror: console.error
ImageError ==
    /\ dinoImg = "loading"
    /\ dinoImg' = "broken"
    /\ UNCHANGED <<version, showCover, isRunning, gameOver, score, stale,
                   listening, frame, capturedRunning, dino, obstacles,
                   lastObstacleTime, lastPowerUpTime, localScore,
                   localPowerUps, now, windowVars, boardVars, probe>>

\* The display refreshes and the pending callback's drawDino throws.
FrameThrows ==
    /\ frame
    /\ drawDinoThrows(dinoImg)
    /\ Apply(loopThrows(version, Closure))
    /\ UNCHANGED <<version, showCover, listening, dinoImg, boardVars, probe>>

NextAssets ==
    \/ Next
    \/ ImageLoad
    \/ ImageError
    \/ FrameThrows

SpecAssets == Init /\ [][NextAssets]_vars

-----------------------------------------------------------------------------
(* part_000 with the leaderboard.  The player does not jump: every session *)
(* ends at the first obstacle, with the same score.                        *)

TypedNames == {<< >>, <<" ">>, <<"a">>, <<"\\", "b", " ">>}

Dates == {<<"1", "1", "/", "4">>, <<"1", "1", "/", "5">>}

InitBoard == InitGame /\ version = "part_000" /\ probe = NoProbe

\* Space while no session's closure is there to take it as a jump
KeyStart == ~capturedRunning /\ KeyDown("Space")

NextBoard ==
    \/ ClickStart
    \/ ClickPlayAgain
    \/ KeyStart
    \/ \E h \in PowerUpHeights : Frame(h)
    \/ FlushEffects
    \/ \E n \in TypedNames : TypeName(n)
    \/ \E date \in Dates : ClickSubmit(date)
    \/ CloseLeaderboard
    \/ Reload

SpecBoard == InitBoard /\ [][NextBoard]_vars

-----------------------------------------------------------------------------
(* part_000 with a page that is hidden for a while.  The browser runs no   *)
(* frame callback while the page is hidden (a background tab, a minimised  *)
(* window) and Date.now() goes on: the callback that runs when the page is *)
(* shown again reads a time much later than the one before it.  The player *)
(* does not jump.                                                           *)

\* how long the page stays hidden, ms
HiddenFor == {5000, 10000}

InitHidden == InitGame /\ version = "part_000" /\ probe = NoProbe

\* The page is shown again, before the first power-up is due, and the
\* pending callback runs loop().
FrameAfterHidden(h, ms) ==
    /\ frame
    /\ ~drawDinoThrows(dinoImg)
    /\ capturedRunning
    /\ now + ms <= POWERUP_INTERVAL
    /\ Apply(loop(version, Closure, now + ms, h))
    /\ UNCHANGED <<version, showCover, listening, dinoImg, boardVars, probe>>

NextHidden ==
    \/ ClickStart
    \/ ClickPlayAgain
    \/ KeyStart
    \/ \E h \in PowerUpHeights : Frame(h)
    \/ \E h \in PowerUpHeights, ms \in HiddenFor : FrameAfterHidden(h, ms)
    \/ FlushEffects

SpecHidden == InitHidden /\ [][NextHidden]_vars

-----------------------------------------------------------------------------
(* Both versions with jumps, and part_000's submit of the final score.     *)
(* The leaderboard is not closed, so a behaviour has one submit at most.   *)

NextScore ==
    \/ Next
    \/ \E n \in TypedNames : TypeName(n)
    \/ \E date \in Dates : ClickSubmit(date)

SpecScore == Init /\ [][NextScore]_vars

-----------------------------------------------------------------------------
(* Both versions with every transition between sessions: the cover, Space, *)
(* collisions, Play Again / Restart, submits, the leaderboard and reloads. *)
(* As in SpecBoard the player does not jump.                               *)

SpecSessions == Init /\ [][NextBoard]_vars

-----------------------------------------------------------------------------
(* The list computation of handleSubmitScore on its own                     *)

ProbeNames == {<<"a">>, <<"c">>}

OldDate == <<"1", "1", "/", "4">>

NewDate == <<"1", "1", "/", "5">>

\* k entries of one score, with the two names in turn, the first one first
\* or the second one first
Run(sc, k, first) ==
    [i \in 1..k |->
        newEntry(IF (i + first) % 2 = 0 THEN <<"a">> ELSE <<"c">>, sc, OldDate)]

\* lists a submit can have produced: sorted, Capacity entries at most
SortedBoards ==
    UNION {{Run(2, i, f) \o Run(1, n - i, g) :
               i \in 0..n, f \in 0..1, g \in 0..1}
           : n \in 0..Capacity}

\* short lists in any order: the list parsed at mount is what the store holds
UnsortedBoards ==
    UNION {[1..n -> {newEntry(<<"a">>, sc, OldDate) : sc \in 1..3}]
           : n \in 0..MaxUnsortedLen}

NewEntries == {newEntry(n, sc, NewDate) : n \in ProbeNames, sc \in 0..3}

InitSubmit ==
    /\ InitGame
    /\ version = "part_000"
    /\ probe \in [kind : {"submit"}, board : SortedBoards \cup UnsortedBoards,
                  entry : NewEntries, done : {FALSE}, result : {<< >>}]

ApplySubmit ==
    /\ probe.kind = "submit" /\ ~probe.done
    /\ probe' = [probe EXCEPT
                   !.done = TRUE,
                   !.result = updatedLeaderboard(probe.board, probe.entry)]
    /\ UNCHANGED gameVars

SpecSubmit == InitSubmit /\ [][ApplySubmit]_vars

-----------------------------------------------------------------------------
(* Properties *)

\* a display refresh ran the loop of a closure that is in a running session
RunningTick == capturedRunning /\ \E h \in PowerUpHeights : Frame(h)

\* a jump key went down
JumpKey == \E key \in {"Space", "ArrowUp"} : KeyDown(key)

\* The claims' reading of "the hitboxes overlap": the inner hitbox is the
\* entity's position plus its collisionBox offset, with the collisionBox size.
Hitbox(e) ==
    [left   |-> e.x + e.collisionBox.x,
     right  |-> e.x + e.collisionBox.x + e.collisionBox.width,
     top    |-> e.y + e.collisionBox.y,
     bottom |-> e.y + e.collisionBox.y + e.collisionBox.height]

Sprite(e) ==
    [left |-> e.x, right |-> e.x + e.width,
     top |-> e.y, bottom |-> e.y + e.height]

StrictlyOverlap(a, b) ==
    a.left < b.right /\ a.right > b.left /\ a.top < b.bottom /\ a.bottom > b.top

HitboxesOverlap(d, obs) ==
    \E i \in 1..Len(obs) : StrictlyOverlap(Hitbox(d), Hitbox(obs[i]))

SpritesOverlap(d, obs) ==
    \E i \in 1..Len(obs) : StrictlyOverlap(Sprite(d), Sprite(obs[i]))

\* C1: a tick of a running session after whose updates the player's hitbox
\* overlaps an obstacle's hitbox ends the session in that tick: isRunning
\* becomes false, gameOver true, and no next frame is requested.
C1_CollisionEndsSession ==
    [][(RunningTick /\ HitboxesOverlap(dino', obstacles'))
        => (~isRunning' /\ gameOver' /\ ~frame')]_vars

\* a collision tick has just ended a session (the closure is still the
\* session's: React has not yet run the effect's cleanup)
C1_Witness ==
    /\ stale /\ gameOver /\ ~isRunning /\ ~frame
    /\ HitboxesOverlap(dino, obstacles)

\* C2: checkCollision is true exactly when some obstacle's inner hitbox and
\* the player's inner hitbox strictly overlap; sprites that overlap without
\* their hitboxes overlapping are no collision.
C2_CheckCollisionIsHitboxOverlap ==
    checkCollision(dino, obstacles) = HitboxesOverlap(dino, obstacles)

\* the sprites overlap, the hitboxes do not, and the session goes on
C2_Witness ==
    /\ SpritesOverlap(dino, obstacles)
    /\ ~checkCollision(dino, obstacles)
    /\ isRunning /\ frame /\ localScore > 1

\* two rectangles that share an edge line: one ends where the other begins
Touching(a, b) ==
    \/ a.right = b.left
    \/ b.right = a.left
    \/ a.bottom = b.top
    \/ b.bottom = a.top

\* C3: the overlap test gives the same answer in both orders, and two
\* rectangles one of which ends where the other begins do not collide.
C3_OverlapSymmetricStrict ==
    (probe.kind = "overlap" /\ probe.done) =>
        /\ probe.ab = probe.ba
        /\ Touching(probe.a, probe.b) => ~probe.ab

\* the right edge of one is the left edge of the other, on the same rows
C3_Witness ==
    /\ probe.kind = "overlap" /\ probe.done
    /\ probe.a.right = probe.b.left
    /\ probe.a.top = probe.b.top /\ probe.a.bottom = probe.b.bottom
    /\ ~probe.ab /\ ~probe.ba

CollectedCount(pus) == Cardinality({i \in 1..Len(pus) : pus[i].collected})

\* C4: once a collision has ended a session, that session's loop runs no
\* further tick, and the score shown does not change until the start/restart
\* action (no tick and no key press changes it).
C4_FinalScoreFrozen ==
    [][gameOver =>
          /\ (score' # score => ClickPlayAgain)
          /\ (stale => ~(\E h \in PowerUpHeights : Frame(h)))]_vars

\* part_000 after the game over is committed: the next closure's loop has a
\* frame pending while the final score is shown
C4_Witness ==
    /\ version = "part_000"
    /\ gameOver /\ ~stale /\ frame /\ listening
    /\ score > PowerUpBonus

\* the tick's collision test comes out true
TickHits == HitboxesOverlap(dino', obstacles')

\* C5 as claimed: every tick of a running session adds exactly 1 to the
\* score counter, next to the 100 of each power-up it collects.
C5_EveryRunningTickAddsOne ==
    [][RunningTick =>
          localScore' = localScore + 1
              + PowerUpBonus * (CollectedCount(localPowerUps')
                                - CollectedCount(localPowerUps))]_vars

\* C5 amended: a tick of a running session collects at most one power-up and
\* adds 100 for it, and adds 1 unless it detects a collision (the collision
\* tick adds no point of its own); the effect's first loop() call is such a
\* tick; a key press leaves the counter alone.
C5_TickAddsOneUnlessCollision ==
    [][LET n == CollectedCount(localPowerUps') - CollectedCount(localPowerUps)
       IN  /\ RunningTick =>
                 /\ n \in {0, 1}
                 /\ localScore' = localScore + PowerUpBonus * n
                                    + (IF TickHits THEN 0 ELSE 1)
           /\ (capturedRunning /\ capturedRunning' /\ ~RunningTick) =>
                 localScore' = localScore
           /\ (~capturedRunning /\ capturedRunning') => localScore' = 1]_vars

\* a session that was ended by a collision after it collected a power-up
C5_Witness ==
    /\ version = "part_000"
    /\ stale /\ gameOver
    /\ CollectedCount(localPowerUps) = 1
    /\ score = localScore /\ localScore > PowerUpBonus

\* C6: a jump key while the player is airborne changes nothing of the
\* player, and the player only ever becomes airborne in the step of a jump
\* key (a key that was ignored does not fire later).
C6_AirborneJumpIsNoOp ==
    [][/\ (JumpKey /\ listening /\ dino.isJumping) => dino' = dino
       /\ (~dino.isJumping /\ dino'.isJumping) => JumpKey]_vars

\* airborne and falling, with the listener registered
C6_Witness ==
    /\ listening /\ isRunning /\ dino.isJumping /\ dino.dy > 0

\* C7: a jump key while the session runs and the player is grounded sets the
\* airborne flag and the velocity to -15 + 0.3 * floor(score / 1000)
\* (part_000; -12 in DinoGame.tsx), with the score counter of that moment,
\* and leaves the position alone.
C7_GroundedJumpImpulse ==
    [][(JumpKey /\ listening /\ capturedRunning /\ isRunning
            /\ ~dino.isJumping) =>
          /\ dino'.isJumping
          /\ dino'.dy = (IF version = "DinoGame" THEN -120
                         ELSE -150 + 3 * (localScore \div 1000))
          /\ dino'.y = dino.y /\ dino'.x = dino.x
          /\ localScore' = localScore]_vars

\* part_000, level 1: the jump has just been accepted
C7_Witness ==
    /\ version = "part_000" /\ isRunning /\ capturedRunning
    /\ localScore >= 1000
    /\ dino.isJumping /\ dino.dy = -147 /\ dino.y = 2800

\* C9: a tick of a running session with the player airborne adds 0.6 to the
\* velocity and then the new velocity to the position; a position at or
\* below ground level becomes ground level, with velocity 0 and the airborne
\* flag false; a grounded player is left as it is.
C9_UpdateDino ==
    [][RunningTick =>
          IF dino.isJumping
          THEN LET v == dino.dy + 6
                   p == dino.y + v
                   ground == 4000 - 200 - dino.height
               IN  IF p >= ground
                   THEN dino' = [dino EXCEPT !.y = ground, !.dy = 0,
                                             !.isJumping = FALSE]
                   ELSE dino' = [dino EXCEPT !.y = p, !.dy = v]
          ELSE dino' = dino]_vars

\* the player has landed: the first position is 20 px above ground level,
\* so a grounded player at ground level has been clamped there
C9_Witness ==
    /\ capturedRunning /\ frame
    /\ ~dino.isJumping /\ dino.dy = 0 /\ dino.y = 2800

\* C8 as claimed: the velocity a grounded jump assigns is negative whatever
\* the score, and the tick after the jump finds the player above the
\* position it jumped from.
C8_JumpMovesPlayerUp ==
    [][(JumpKey /\ listening /\ capturedRunning /\ ~dino.isJumping) =>
          /\ dino'.dy < 0
          /\ updateDino(dino').y < dino.y]_vars

\* C10: floor(S / 1000) does not decrease when S grows; the spawn interval
\* max(2000 - 100 * level, 1000) does not grow when S grows, is never below
\* 1000 ms, and is 1000 ms exactly from level 10 on.
C10_DifficultyMonotone ==
    (probe.kind = "level" /\ probe.done) =>
        /\ probe.levelS * 1000 <= probe.s
        /\ probe.s < (probe.levelS + 1) * 1000
        /\ probe.s <= probe.t =>
              /\ probe.levelS <= probe.levelT
              /\ probe.intervalS >= probe.intervalT
        /\ probe.intervalS >= 1000
        /\ probe.intervalS = (IF 2000 - 100 * probe.levelS >= 1000
                              THEN 2000 - 100 * probe.levelS ELSE 1000)
        /\ (probe.intervalS = 1000) = (probe.levelS >= 10)

\* the last score of level 10 and a score of level 11: the floor holds
C10_Witness ==
    /\ probe.kind = "level" /\ probe.done
    /\ probe.s = 10999 /\ probe.t = 11000
    /\ probe.levelS = 10 /\ probe.levelT = 11
    /\ probe.intervalS = 1000 /\ probe.intervalT = 1000

\* the positions of the items of a list
Xs(items) == {items[i].x : i \in 1..Len(items)}

\* the uncollected power-ups of a list
Uncollected(pus) == SelectSeq(pus, LAMBDA p : ~p.collected)

\* the horizontal distances between an obstacle and an uncollected power-up
Distances(obs, pus) ==
    {obs[i].x - pus[j].x : i \in 1..Len(obs),
                           j \in {k \in 1..Len(pus) : ~pus[k].collected}}

\* C11: in part_000 a tick moves every obstacle and every uncollected
\* power-up left by the same 4 + 0.5 * floor(score / 1000), the items it
\* spawns included (they start at the canvas width), so an obstacle and an
\* uncollected power-up that stay listed keep their distance.
C11_Lockstep ==
    [][(RunningTick /\ version = "part_000") =>
          LET speed == 40 + 5 * (localScore \div 1000)
              start == 8000 - speed
              olds  == SelectSeq(obstacles', LAMBDA o : o.x # start)
              oldPs == SelectSeq(localPowerUps', LAMBDA p : p.x # start)
          IN  /\ \A x \in Xs(obstacles') :
                    x = start \/ x + speed \in Xs(obstacles)
              /\ \A x \in Xs(Uncollected(localPowerUps')) :
                    x = start \/ x + speed \in Xs(Uncollected(localPowerUps))
              /\ Distances(olds, oldPs) \subseteq
                    Distances(obstacles, localPowerUps)]_vars

\* level 1: an obstacle and an uncollected power-up are on the track
C11_Witness ==
    /\ version = "part_000" /\ capturedRunning /\ frame
    /\ localScore > 1000
    /\ \E i \in 1..Len(obstacles), j \in 1..Len(localPowerUps) :
          /\ ~localPowerUps[j].collected
          /\ localPowerUps[j].x < obstacles[i].x
          /\ obstacles[i].x < 8000 - 45

\* C17: every listed obstacle and power-up has its right edge right of the
\* left boundary (x + width > 0), and every obstacle's x is at most the
\* canvas width.
C17_ItemsOnTrack ==
    /\ \A i \in 1..Len(obstacles) :
          obstacles[i].x + obstacles[i].width > 0 /\ obstacles[i].x <= 8000
    /\ \A i \in 1..Len(localPowerUps) :
          localPowerUps[i].x + localPowerUps[i].width > 0

\* part_000: three obstacles were spawned and the first has been dropped, a
\* power-up was spawned and has been dropped
C17_Witness ==
    /\ version = "part_000" /\ capturedRunning /\ frame
    /\ lastPowerUpTime > 0 /\ localPowerUps = << >>
    /\ lastObstacleTime > 3 * 2000 /\ Len(obstacles) <= 2

\* the first obstacle of the list leaves the list in this step
FirstDropped ==
    /\ Len(obstacles) > 0
    /\ obstacles[1].x - 60 \notin Xs(obstacles')

\* C18 as claimed (DinoGame.tsx): an obstacle leaves the list one tick after
\* the tick that moved its right edge to or past 0, that is, it is listed
\* with x + width <= 0 for one tick.
C18_RemovedOneTickLater ==
    [][(RunningTick /\ version = "DinoGame" /\ FirstDropped) =>
          obstacles[1].x + obstacles[1].width <= 0]_vars

\* C18 amended (DinoGame.tsx): an obstacle is at 800 - 6k after k updates,
\* the tick that spawns it being the first; it leaves the list in the very
\* tick whose update moves its right edge to or past 0 (the 144th), so it is
\* never listed with x + width <= 0.
C18_RemovedInSameTick ==
    [][(RunningTick /\ version = "DinoGame") =>
          /\ \A x \in Xs(obstacles') :
                x = 8000 - 60 \/ x + 60 \in Xs(obstacles)
          /\ \A i \in 1..Len(obstacles') :
                /\ \E k \in 1..143 : obstacles'[i].x = 8000 - 60 * k
                /\ obstacles'[i].x + obstacles'[i].width > 0
          /\ \A i \in 1..Len(obstacles) :
                (obstacles[i].x - 60 \in Xs(obstacles'))
                    = (obstacles[i].x - 60 + obstacles[i].width > 0)
          /\ FirstDropped => /\ obstacles[1].x = 8000 - 60 * 143
                             /\ obstacles[1].x + obstacles[1].width > 0]_vars

\* DinoGame.tsx: the first obstacle has been dropped and the next one is on
\* the track
C18_Witness ==
    /\ version = "DinoGame" /\ capturedRunning /\ frame
    /\ lastObstacleTime >= 2 * 1520
    /\ Len(obstacles) = 1
    /\ obstacles[1].x > 8000 - 60 * 100

\* C19: the player's horizontal position is 50 in every state.
C19_PlayerXFixed == dino.x = 500

\* part_000: the player is in the air after it collected a power-up
C19_Witness ==
    /\ version = "part_000" /\ dino.x = 500
    /\ dino.isJumping /\ dino.y < 2800 /\ capturedRunning
    /\ CollectedCount(localPowerUps) = 1

\* the rectangle of a power-up
Rect(p) ==
    [left |-> p.x, right |-> p.x + p.width,
     top |-> p.y, bottom |-> p.y + p.height]

\* the power-ups of a list that the player's hitbox strictly overlaps
Reached(d, pus) ==
    {i \in 1..Len(pus) : StrictlyOverlap(Hitbox(d), Rect(pus[i]))}

SortedDesc(b) == \A i \in 1..(Len(b) - 1) : b[i].score >= b[i + 1].score

SubmitDone == probe.kind = "submit" /\ probe.done

\* C12: whatever the list was, the list a submit produces has at most 10
\* entries and is sorted by score, highest first.
C12_BoardBoundedSorted ==
    SubmitDone => Len(probe.result) <= 10 /\ SortedDesc(probe.result)

\* a full list and an entry that beats all of it
C12_Witness ==
    /\ SubmitDone
    /\ Len(probe.board) = 10 /\ probe.entry.score = 3
    /\ Len(probe.result) = 10 /\ probe.result[1] = probe.entry

\* how many times an entry occurs in a list
Count(b, e) == Cardinality({i \in 1..Len(b) : b[i] = e})

Scored(sc) == newEntry(<<"a">>, sc, OldDate)

\* C13: a submit produces the first 10 of the previous entries and the new
\* one in descending order of score: it has min(n + 1, 10) entries, all of
\* them from those, sorted, and none of the entries it leaves out has a
\* higher score than one it keeps; 50, 200, 75 submitted to an empty list
\* give 200, 75, 50 (the code's capacity is 10, nothing is dropped).
C13_KeepsTop ==
    /\ SubmitDone =>
          LET all == Append(probe.board, probe.entry)
              res == probe.result
          IN  /\ Len(res) = (IF Len(all) < 10 THEN Len(all) ELSE 10)
              /\ SortedDesc(res)
              /\ \A i \in 1..Len(res) : Count(res, res[i]) <= Count(all, res[i])
              /\ \A i \in 1..Len(all) :
                    Count(res, all[i]) < Count(all, all[i]) =>
                        \A j \in 1..Len(res) : res[j].score >= all[i].score
    /\ updatedLeaderboard(
           updatedLeaderboard(
               updatedLeaderboard(<< >>, Scored(50)), Scored(200)), Scored(75))
         = <<Scored(200), Scored(75), Scored(50)>>

\* a full list whose last entry the new entry beats: the last one is dropped
C13_Witness ==
    /\ SubmitDone
    /\ Len(probe.board) = 10
    /\ probe.board[10].score = 1 /\ probe.entry.score = 2
    /\ Count(probe.result, probe.entry) = 1
    /\ Count(probe.result, probe.board[10])
          < Count(Append(probe.board, probe.entry), probe.board[10])

\* a list without its entry number p
Without(b, p) == SubSeq(b, 1, p - 1) \o SubSeq(b, p + 1, Len(b))

\* C14: a submit to a sorted list adds an entry even if its name is already
\* listed, puts it behind every entry of the same or a higher score and
\* before every entry of a lower score, and leaves the others in their
\* order; if the list is full and its last score is not below the new
\* one, the new entry is the one left out.
C14_NoDedupStableTies ==
    (SubmitDone /\ SortedDesc(probe.board)) =>
        LET res == probe.result
            at  == {i \in 1..Len(res) : res[i] = probe.entry}
        IN  IF at = {}
            THEN /\ res = probe.board
                 /\ Len(probe.board) = 10
                 /\ probe.board[10].score >= probe.entry.score
            ELSE LET p == CHOOSE i \in at : TRUE
                 IN  /\ \A i \in 1..(p - 1) :
                           res[i].score >= probe.entry.score
                     /\ \A i \in (p + 1)..Len(res) :
                           res[i].score < probe.entry.score
                     /\ Without(res, p)
                           = SubSeq(probe.board, 1, Len(res) - 1)
                     /\ Len(probe.board) < 10 =>
                           Len(res) = Len(probe.board) + 1

\* a full list ending with the new entry's score and holding its name
C14_Witness ==
    /\ SubmitDone
    /\ Len(probe.board) = 10
    /\ probe.board[10].score = probe.entry.score
    /\ probe.board[10].name = probe.entry.name
    /\ probe.result = probe.board

-----------------------------------------------------------------------------
(* Power-ups and spawning (part_000) *)

\* C21: in part_000 a collected power-up is removed from the list: a power-up
\* that was collected before a running tick is not in the list after it.
C21_CollectedRemoved ==
    [][(version = "part_000" /\ RunningTick)
          => \A i \in 1..Len(localPowerUps) :
                localPowerUps[i].collected
                   => \A j \in 1..Len(localPowerUps') :
                         localPowerUps'[j] # localPowerUps[i]]_vars

\* the obstacles of a list that have moved once: pushed in the tick that has
\* just run, at speed sp
JustSpawned(obs, sp) == {i \in 1..Len(obs) : obs[i].x = CanvasWidth - sp}

\* C22: a running tick spawns an obstacle iff the time since the last spawn
\* (since the session's start, for the first) strictly exceeds the current
\* interval; it spawns one at most and sets the spawn time to the tick's time,
\* so a spawn is more than 1000 ms (DinoGame.tsx: 1500 ms) after the one
\* before, and no obstacle is listed within the first interval of a session.
C22_SpawnIffIntervalExceeded ==
    [][RunningTick
          => LET elapsed == now' - lastObstacleTime
                 due     == elapsed > currentInterval(version, localScore)
                 new     == JustSpawned(obstacles',
                                        currentSpeed(version, localScore))
             IN  /\ (new # {}) <=> due
                 /\ Cardinality(new) <= 1
                 /\ Len(obstacles') <= Len(obstacles) + 1
                 /\ lastObstacleTime' = IF due THEN now' ELSE lastObstacleTime
                 /\ due => elapsed > (IF version = "DinoGame"
                                      THEN OBSTACLE_INTERVAL ELSE MinInterval)
                 /\ obstacles' # << >>
                       => now' > currentInterval(version, 0)]_vars

\* a second obstacle has just been spawned while the first is still listed
C22_Witness ==
    /\ capturedRunning
    /\ Len(obstacles) = 2
    /\ lastObstacleTime = now
    /\ JustSpawned(obstacles, currentSpeed(version, localScore)) = {2}

\* C23: in part_000 a running tick spawns a power-up iff more than 10000 ms
\* have passed since the last power-up spawn (since the session's start, for
\* the first), whether or not it spawns an obstacle, and it spawns an
\* obstacle iff the obstacle interval is exceeded, whether or not it spawns a
\* power-up: each spawn sets its own timer and adds to its own list only.
C23_SpawnsIndependent ==
    [][(version = "part_000" /\ RunningTick)
          => LET speed == currentSpeed(version, localScore)
                 pdue  == now' - lastPowerUpTime > POWERUP_INTERVAL
                 odue  == now' - lastObstacleTime
                             > currentInterval(version, localScore)
             IN  /\ (JustSpawned(localPowerUps', speed) # {}) <=> pdue
                 /\ lastPowerUpTime' = IF pdue THEN now' ELSE lastPowerUpTime
                 /\ ~pdue => Len(localPowerUps') <= Len(localPowerUps)
                 /\ (JustSpawned(obstacles', speed) # {}) <=> odue
                 /\ lastObstacleTime' = IF odue THEN now' ELSE lastObstacleTime
                 /\ ~odue => Len(obstacles') <= Len(obstacles)]_vars

\* a power-up has just been spawned on a tick that spawned no obstacle, and
\* an obstacle spawned earlier is listed
C23_Witness ==
    /\ version = "part_000"
    /\ capturedRunning
    /\ lastPowerUpTime = now
    /\ lastObstacleTime < now
    /\ obstacles # << >>
    /\ JustSpawned(localPowerUps, currentSpeed(version, localScore)) # {}

-----------------------------------------------------------------------------
(* Handlers, loops and sessions *)

\* C24: once a collision has ended a session, a jump key changes nothing of
\* that session's player, also when the key comes after the collision tick
\* and before the effect's cleanup has removed the session's listener.
C24_NoJumpOnEndedSession ==
    [][(gameOver /\ JumpKey) => dino' = dino]_vars

\* a frame callback of the closure has run, to its end or to an exception
FrameCallback == FrameThrows \/ \E h \in PowerUpHeights : Frame(h)

\* C26: the player image's request, under way, ended with the image or
\* failed, does not change what a frame callback does to the simulation:
\* the closure after the callback and whether the loop goes on are those of
\* loop() on the closure before it, at the callback's time.
C26_AssetsDoNotAffectSimulation ==
    [][FrameCallback
          => \E h \in PowerUpHeights :
                LET r == loop(version, Closure,
                              IF capturedRunning THEN now + FrameMs ELSE now,
                              h)
                IN  /\ Closure' = r.closure
                    /\ frame' = r.scheduled]_vars

\* C25: whatever the sequence of starts, collisions, restarts, submits and
\* cover or leaderboard transitions, at most one loop has a frame callback
\* pending and at most one handleJump is registered, and they are those of
\* the closure of the effect's last run: no earlier closure's loop can run
\* a tick once a new one has been built.
C25_OneLoopOneListener ==
    /\ Cardinality(pending) <= 1
    /\ Cardinality(listeners) <= 1
    /\ pending \subseteq {"this"}
    /\ listeners \subseteq {"this"}
    /\ frame <=> "this" \in pending
    /\ listening <=> "this" \in listeners

\* a later session's loop is running (part_000: after a submit and the
\* leaderboard; DinoGame.tsx: after a collision and Restart)
C25_Witness ==
    /\ capturedRunning
    /\ localScore > 1
    /\ pending = {"this"}
    /\ listeners = {"this"}
    /\ animationRef = "this"
    /\ leaderboard # << >>

\* the state handleSpaceStart starts a session from
Idle == ~showCover /\ ~isRunning /\ ~gameOver

\* C27: in part_000 a key sets the running flag iff it is Space and the
\* cover is hidden, no session is running and game over is false; during
\* game over no key starts a session, and Play Again leads to the idle state
\* without starting one.
C27_SpaceStartsOnlyWhenIdle ==
    [][version = "part_000"
          => /\ \A key \in Keys :
                  KeyDown(key)
                     => /\ (isRunning' /\ ~isRunning) <=> (key = "Space" /\ Idle)
                        /\ gameOver => /\ ~isRunning' /\ gameOver'
                                        /\ capturedRunning' = capturedRunning
                                        /\ localScore' = localScore
             /\ ClickPlayAgain => (Idle' /\ ~capturedRunning' /\ score' = 0)]_vars

\* Space has started a session from the idle state
C27_Witness ==
    /\ version = "part_000"
    /\ ~showCover /\ isRunning /\ ~gameOver
    /\ capturedRunning /\ frame
    /\ localScore = 1

\* C28: in part_000, on a tick in which the player runs into an obstacle no
\* power-up is marked collected and no bonus is added, also when the player
\* overlaps an uncollected power-up on that tick.
C28_HitBeforePowerUp ==
    [][(version = "part_000" /\ RunningTick /\ TickHits)
          => /\ CollectedCount(localPowerUps') = CollectedCount(localPowerUps)
             /\ localScore' = localScore]_vars

\* C29: in part_000 a tick of a closure that is not running (idle, game
\* over) changes nothing of the simulation (score, player, obstacles,
\* power-ups, both spawn times), and a jump key is a no-op for it: handleJump
\* leaves the closure as it is, and unless the key is the Space that starts
\* a session nothing changes at all.
C29_NotRunningNoChange ==
    [][(version = "part_000" /\ ~capturedRunning)
          => /\ (\E h \in PowerUpHeights : Frame(h))
                   => (Closure' = Closure /\ score' = score /\ frame')
             /\ \A key \in {"Space", "ArrowUp"} :
                   KeyDown(key)
                      => /\ handleJump(version, Closure, key) = Closure
                         /\ ~(key = "Space" /\ Idle)
                               => (Closure' = Closure /\ score' = score)]_vars

\* the loop of the closure built after a collision is going, game over is
\* shown with the final score
C29_Witness ==
    /\ version = "part_000"
    /\ ~capturedRunning /\ listening /\ frame
    /\ gameOver /\ ~stale
    /\ score > 0
    /\ Closure = FreshClosure(FALSE)

\* the score of the last entry made: dates tell it from the entries before
LastEntryScore(date) ==
    LET made == {i \in 1..Len(leaderboard') : leaderboard'[i].date = date}
    IN  IF made = {} THEN -1 ELSE leaderboard'[First(made)].score

\* C30: the score set at game over is the number of the session's ticks that
\* ended without a collision plus 100 for each power-up collected in the
\* session, the colliding tick adding nothing; it stays as it is while game
\* over lasts, and it is the score of the entry a submit then makes.
C30_FinalScore ==
    [][/\ (RunningTick /\ TickHits)
             => /\ score' = (now' \div FrameMs)
                               + PowerUpBonus * CollectedCount(localPowerUps')
                /\ score' = localScore'
       /\ (gameOver /\ gameOver') => score' = score
       /\ \A date \in Dates :
             (ClickSubmit(date) /\ showLeaderboard')
                => LastEntryScore(date) = score]_vars

\* an entry holds the final score of a session in which the player jumped
\* over the first obstacle
C30_Witness ==
    /\ version = "part_000"
    /\ showLeaderboard
    /\ Len(leaderboard) = 1
    /\ leaderboard[1].score = score
    /\ score > 300

-----------------------------------------------------------------------------
(* The player on the ground, the flags, and the start of a session *)

\* C31: in a session a grounded player (isJumping false) is at ground level
\* (canvas.height - GROUND_HEIGHT - dino.height) with dy = 0, and the
\* player's y is never below ground level (never greater than it).
C31_GroundedAtGroundLevel ==
    capturedRunning
       => /\ ~dino.isJumping => (dino.y = GroundY(dino) /\ dino.dy = 0)
          /\ dino.y <= GroundY(dino)

\* C32: isRunning and gameOver are never both true, whatever the sequence of
\* starts, restarts, Play Again, Space starts, collisions and submits (the
\* state updates of one handler or one tick taken together).
C32_NotRunningAndOver == ~(isRunning /\ gameOver)

\* a later session has ended in a collision: part_000 after a submit,
\* DinoGame.tsx after Restart
C32_Witness ==
    /\ gameOver /\ ~isRunning /\ stale
    /\ \/ version = "part_000" /\ leaderboard # << >>
       \/ version = "DinoGame" /\ score > 0 /\ localScore = score

\* C33: in part_000, whenever isRunning is true the leaderboard is hidden, the
\* canvas is mounted and the loop of that session is scheduled: no session is
\* started while the leaderboard is displayed.
C33_RunningHasLoop ==
    (version = "part_000" /\ isRunning)
       => /\ ~showLeaderboard
          /\ CanvasMounted(version, showCover, showLeaderboard)
          /\ listening /\ frame /\ capturedRunning

-----------------------------------------------------------------------------
(* Sessions without a jump, with frames that keep coming: while the page   *)
(* is visible the browser runs a requested frame callback at the next      *)
(* refresh, and React commits the state a callback set.                    *)

NextNoJump ==
    \/ ClickStart
    \/ ClickPlayAgain
    \/ KeyStart
    \/ \E h \in PowerUpHeights : Frame(h)
    \/ FlushEffects

\* What every Frame step of a running session does, and no other step: the
\* callback the loop requested runs and the closure's clock moves on by one
\* frame.  It is enabled exactly when such a Frame step is.
RunningFrame ==
    /\ frame
    /\ ~drawDinoThrows(dinoImg)
    /\ capturedRunning
    /\ localScore < MaxScore
    /\ now' = now + FrameMs

SpecNoJump ==
    /\ Init
    /\ [][NextNoJump]_vars
    /\ WF_now(RunningFrame)
    /\ WF_vars(FlushEffects)

\* C34: a running session in which the player never jumps, with ticks that
\* keep firing, ends in game over: no obstacle is pruned on the way, and the
\* first obstacle of the list, the first one spawned, overlaps the grounded
\* player's hitbox at the end.
C34_NoJumpSessionEnds ==
    /\ (isRunning /\ capturedRunning)
          ~> /\ gameOver /\ ~isRunning
             /\ ~dino.isJumping
             /\ Len(obstacles) > 0
             /\ Overlap(dinoBox(dino), obsBox(obstacles[1]))
    /\ [][RunningTick => Len(obstacles') >= Len(obstacles)]_vars

\* the collision of a player that never left its starting position
C34_Witness ==
    /\ gameOver /\ stale /\ capturedRunning
    /\ dino = FreshDino
    /\ Len(obstacles) > 0
    /\ Overlap(dinoBox(dino), obsBox(obstacles[1]))

-----------------------------------------------------------------------------
(* Sessions with jumps, with frames that keep coming *)

SpecJump == Init /\ [][Next]_vars /\ WF_now(RunningFrame)

\* the longest a jump lasts, in ticks after the one that follows the key
MaxAirTicks == 50

\* at most this many ticks have passed since the key: the strongest impulse
\* is the one at level 0 and every tick in the air adds GRAVITY to dy
AirTicks(d) == (d.dy - currentJumpForce(version, 0)) \div GRAVITY

\* C35: a jump ends within a bounded number of ticks.  While the player is in
\* the air in a running session, every tick either lands it (isJumping false,
\* at ground level, dy 0), ends the session, or adds one to the ticks in the
\* air, which never exceed MaxAirTicks; with ticks that keep firing the
\* player is on the ground again or the session has ended.
C35_JumpTerminates ==
    /\ [](dino.isJumping
            => /\ dino.dy >= currentJumpForce(version, 0)
               /\ AirTicks(dino) <= MaxAirTicks)
    /\ [][(RunningTick /\ dino.isJumping)
            => \/ /\ ~dino'.isJumping
                  /\ dino'.y = GroundY(dino')
                  /\ dino'.dy = 0
               \/ gameOver'
               \/ AirTicks(dino') = AirTicks(dino) + 1]_vars
    /\ (isRunning /\ capturedRunning /\ dino.isJumping)
          ~> (~dino.isJumping \/ ~isRunning \/ localScore >= MaxScore)

\* a jump that lasted as long as any: the player is about to land
C35_Witness ==
    /\ isRunning /\ capturedRunning /\ dino.isJumping
    /\ AirTicks(dino) = MaxAirTicks

-----------------------------------------------------------------------------
(* One session after the other *)

\* a step that starts a session: the running flag is set and the game effect
\* has built the session's closure
SessionStart == ~isRunning /\ isRunning' /\ capturedRunning'

\* C36: a session starts from a fresh state however the last one ended.  When
\* its first tick is over that tick is the only one counted (the score was
\* 0), the React score is 0, there is no obstacle and no power-up, the player
\* is on the ground at its starting position with dy 0 and not jumping, and
\* both spawn timers are the session's start time.
C36_SessionStartsFresh ==
    [][SessionStart
          => /\ score' = 0
             /\ localScore' = 1
             /\ obstacles' = << >>
             /\ localPowerUps' = << >>
             /\ dino' = FreshDino
             /\ ~dino'.isJumping /\ dino'.dy = 0
             /\ now' = 0
             /\ lastObstacleTime' = now'
             /\ lastPowerUpTime' = now'
             /\ frame' /\ listening']_vars

\* a session started after an earlier one was played to its collision and
\* its score submitted
C36_Witness ==
    /\ isRunning /\ capturedRunning /\ frame
    /\ localScore = 1
    /\ leaderboard # << >>

-----------------------------------------------------------------------------
(* Submitting without a name, and the score within a session *)

\* the name is empty or made of spaces only
BlankName == \A i \in 1..Len(playerName) : playerName[i] = " "

\* C37: in part_000 a submit with an empty or whitespace-only name changes
\* nothing: the leaderboard, the stored list, gameOver and showLeaderboard
\* are as before (and so is the rest of the state).
C37_BlankNameRejected ==
    [][(BlankName /\ \E date \in Dates : ClickSubmit(date))
          => /\ leaderboard' = leaderboard
             /\ storage' = storage
             /\ gameOver' = gameOver
             /\ showLeaderboard' = showLeaderboard
             /\ UNCHANGED vars]_vars

\* the overlay of a later game over, with a name of one space typed in and a
\* list that holds an entry already
C37_Witness ==
    /\ version = "part_000"
    /\ gameOver /\ ~stale /\ ~showCover /\ ~showLeaderboard
    /\ playerName = <<" ">>
    /\ leaderboard # << >>
    /\ storage = stringify(leaderboard)

\* C38: within a running session the score never decreases from one step to
\* the next, and so the speed level and the scroll speed never decrease and
\* the spawn interval never increases.
C38_ScoreNeverDecreases ==
    [][(capturedRunning /\ capturedRunning')
          => /\ localScore' >= localScore
             /\ speedLevel(localScore') >= speedLevel(localScore)
             /\ currentSpeed(version, localScore')
                   >= currentSpeed(version, localScore)
             /\ currentInterval(version, localScore')
                   <= currentInterval(version, localScore)]_vars

\* part_000: the session has reached level 1 with a power-up collected
C38_Witness ==
    /\ version = "part_000" /\ capturedRunning /\ isRunning /\ frame
    /\ speedLevel(localScore) = 1
    /\ currentSpeed(version, localScore) = 45
    /\ currentInterval(version, localScore) = 1900
    /\ CollectedCount(localPowerUps) > 0

=============================================================================
